---- MODULE Spec2Model ----
(***************************************************************************)
(* tarfs: a tar archive served as a read-only path filesystem.             *)
(*                                                                         *)
(* The model covers the metadata store (a B-tree ordered by depth and then *)
(* by key), the single-pass ingestion FromReaderAt, and the adapter        *)
(* operations Open / Read / OpenDir / GetAttr / StatFs with                *)
(* checkPermissions.                                                       *)
(*                                                                         *)
(* Strings are sequences of one-character strings, so that TrimPrefix,     *)
(* TrimSuffix, filepath.Join/Clean/Dir/Base and the byte-wise comparison   *)
(* of keys are computed, not assumed.                                      *)
(***************************************************************************)
EXTENDS Integers, Sequences, FiniteSets, TLC

VARIABLES
    pc,          \* "ingest" | "serving" | "failed" | "panic"
    proc,        \* effective uid/gid of the process (os.Geteuid, os.Getegid)
    stream,      \* the archive bytes read so far (io.ReaderAt), one cell per byte
    heap,        \* the allocated nodes: *node and *dirNode values, by address 1..Len
    db,          \* btreeStore: the items in B-tree order
    missingDirs, \* FromReaderAt's missingDirs map (its key set)
    ingested,    \* history: <<canonical key, node address>> of every header processed
    err,         \* the error FromReaderAt returned, or NoErr
    reply,       \* the last call and what it returned
    permIn,      \* inputs of a stand-alone checkPermissions evaluation
    added        \* history: <<key, node address>> of every btreeStore.Add

vars == <<pc, proc, stream, heap, db, missingDirs, ingested, err, reply, permIn, added>>

-----------------------------------------------------------------------------
(* Bounds of the model.                                                    *)

\* headers read from one archive
MaxEntries == 4
\* the tar block size (512 in archive/tar), scaled down
BlockSize == 2
\* Add calls made on a store directly
MaxAdds == 4
\* characters of a raw archive name given to headerNameEntry on its own
MaxNameLen == 4

-----------------------------------------------------------------------------
(* Strings as sequences of characters.                                     *)

\* The characters in use, in ascending byte order ('.' < '/' < letters).
Alphabet == <<".", "/", "a", "b", "e", "f", "h", "l", "n", "o", "p", "q", "r", "u", "x", "z">>

Code(c) == CHOOSE i \in 1..Len(Alphabet) : Alphabet[i] = c

Min(a, b) == IF a < b THEN a ELSE b

\* Go's string comparison a < b: byte-wise lexicographic.
RECURSIVE StrLess(_, _)
StrLess(a, b) ==
    IF b = <<>> THEN FALSE
    ELSE IF a = <<>> THEN TRUE
    ELSE IF Code(a[1]) < Code(b[1]) THEN TRUE
    ELSE IF Code(a[1]) > Code(b[1]) THEN FALSE
    ELSE StrLess(Tail(a), Tail(b))

HasPrefix(s, p) == Len(s) >= Len(p) /\ SubSeq(s, 1, Len(p)) = p
HasSuffix(s, p) == Len(s) >= Len(p) /\ SubSeq(s, Len(s) - Len(p) + 1, Len(s)) = p

\* strings.TrimPrefix
TrimPrefix(s, p) == IF HasPrefix(s, p) THEN SubSeq(s, Len(p) + 1, Len(s)) ELSE s
\* strings.TrimSuffix
TrimSuffix(s, p) == IF HasSuffix(s, p) THEN SubSeq(s, 1, Len(s) - Len(p)) ELSE s

\* strings.Count(s, "/")
RECURSIVE CountSep(_)
CountSep(s) ==
    IF s = <<>> THEN 0
    ELSE (IF s[1] = "/" THEN 1 ELSE 0) + CountSep(Tail(s))

\* The "/"-separated elements of s, empty ones included.
RECURSIVE SplitSep(_, _)
SplitSep(s, cur) ==
    IF s = <<>> THEN <<cur>>
    ELSE IF s[1] = "/" THEN <<cur>> \o SplitSep(Tail(s), <<>>)
    ELSE SplitSep(Tail(s), Append(cur, s[1]))

\* filepath.Clean's pass over the elements: "" and "." are dropped, ".." removes
\* the element before it (nothing to remove at the root; kept on a relative path).
RECURSIVE CleanElems(_, _, _)
CleanElems(elems, out, rooted) ==
    IF elems = <<>> THEN out
    ELSE LET e == elems[1]
             rest == Tail(elems)
         IN IF e = <<>> \/ e = <<".">> THEN CleanElems(rest, out, rooted)
            ELSE IF e = <<".", ".">> THEN
                IF out # <<>> /\ out[Len(out)] # <<".", ".">>
                    THEN CleanElems(rest, SubSeq(out, 1, Len(out) - 1), rooted)
                ELSE IF rooted THEN CleanElems(rest, out, rooted)
                ELSE CleanElems(rest, Append(out, e), rooted)
            ELSE CleanElems(rest, Append(out, e), rooted)

RECURSIVE JoinSep(_)
JoinSep(elems) ==
    IF elems = <<>> THEN <<>>
    ELSE IF Len(elems) = 1 THEN elems[1]
    ELSE elems[1] \o <<"/">> \o JoinSep(Tail(elems))

\* filepath.Clean
Clean(path) ==
    IF path = <<>> THEN <<".">>
    ELSE LET rooted == path[1] = "/"
             body == JoinSep(CleanElems(SplitSep(path, <<>>), <<>>, rooted))
         IN IF rooted THEN <<"/">> \o body
            ELSE IF body = <<>> THEN <<".">> ELSE body

\* Index of the last "/" of s, 0 when there is none.
RECURSIVE LastSep(_)
LastSep(s) ==
    IF s = <<>> THEN 0
    ELSE IF s[Len(s)] = "/" THEN Len(s)
    ELSE LastSep(SubSeq(s, 1, Len(s) - 1))

\* filepath.Dir: everything up to the last separator, cleaned.
Dir(path) == Clean(SubSeq(path, 1, LastSep(path)))

RECURSIVE StripTrailingSeps(_)
StripTrailingSeps(s) ==
    IF s # <<>> /\ s[Len(s)] = "/" THEN StripTrailingSeps(SubSeq(s, 1, Len(s) - 1))
    ELSE s

\* filepath.Base
Base(path) ==
    IF path = <<>> THEN <<".">>
    ELSE LET p == StripTrailingSeps(path)
             b == SubSeq(p, LastSep(p) + 1, Len(p))
         IN IF b = <<>> THEN <<"/">> ELSE b

\* A concatenation in place of filepath.Join.
fuseNameToKeyConcat(name) == <<"/">> \o name

\* filepath.Join(string(os.PathSeparator), name)
fuseNameToKey(name) == Clean(<<"/", "/">> \o name)

headerNameEntry(name) ==
    LET trimmed == TrimSuffix(TrimPrefix(name, <<".", "/">>), <<"/">>)
    IN fuseNameToKey(IF trimmed = <<".">> THEN <<>> ELSE trimmed)

-----------------------------------------------------------------------------
(* The archives: tar headers with their content.                           *)

foo == <<"f", "o", "o">>
bar == <<"b", "a", "r">>
quux == <<"q", "u", "u", "x">>
hello == <<"h", "e", "l", "l", "o">>
nope == <<"n", "o", "p", "e">>
Sl == <<"/">>

\* A header as tar.Reader.Next returns it, with the bytes that follow it.
Header(name, kind, perm, uid, gid, mtime, data) ==
    [name |-> name, kind |-> kind, perm |-> perm, uid |-> uid, gid |-> gid,
     mtime |-> mtime, data |-> data]

Headers ==
    { Header(foo \o Sl, "dir", 493, 0, 0, 1, <<>>),
      Header(foo \o Sl \o bar, "reg", 420, 0, 0, 2, <<10>>),
      Header(foo \o Sl \o quux \o Sl, "dir", 493, 0, 0, 3, <<>>),
      Header(foo \o Sl \o quux \o Sl \o hello, "reg", 256, 1000, 1000, 4, <<104, 101, 108>>),
      Header(<<".", "/">>, "dir", 488, 1000, 1000, 5, <<>>),
      Header(foo, "reg", 420, 0, 0, 6, <<>>),
      Header(<<".">>, "reg", 420, 0, 0, 7, <<>>) }

\* The bytes one entry occupies in the stream: a header block, the content,
\* and the padding up to the next block boundary.  Each byte carries the
\* index of the entry it belongs to.
Cell(owner, kind, byte) == [owner |-> owner, kind |-> kind, byte |-> byte]

PadLen(n) == (BlockSize - (n % BlockSize)) % BlockSize

EntryBytes(i, h) ==
    [j \in 1..BlockSize |-> Cell(i, "header", 0)]
    \o [j \in 1..Len(h.data) |-> Cell(i, "data", h.data[j])]
    \o [j \in 1..PadLen(Len(h.data)) |-> Cell(i, "pad", 0)]


-----------------------------------------------------------------------------
(* The names and keys in use, with the path functions tabulated over them  *)
(* (each table is the function above it, evaluated once).                  *)

\* The paths the callers ask for.
FuseNames ==
    { <<>>, foo, foo \o Sl \o bar, foo \o Sl \o quux,
      foo \o Sl \o quux \o Sl \o hello, nope }

HeaderNames == {hd.name : hd \in Headers}

\* The nodes added to a store directly, as the store's tests do: the key, the
\* node's name and the type bits of its mode.
StoreNodes ==
    { [key |-> Sl, name |-> <<>>, kind |-> "dir"],
      [key |-> Sl \o foo, name |-> foo, kind |-> "dir"],
      [key |-> Sl \o bar, name |-> bar, kind |-> "dir"],
      [key |-> Sl \o foo \o Sl \o bar, name |-> bar, kind |-> "reg"],
      [key |-> Sl \o bar \o Sl \o hello, name |-> hello, kind |-> "reg"],
      [key |-> Sl \o bar \o Sl \o quux, name |-> quux, kind |-> "dir"],
      [key |-> Sl \o bar \o Sl \o quux \o Sl \o nope, name |-> nope, kind |-> "reg"] }

\* The keys asked of such a store: the keys added and one that never is.
StoreKeys == {n.key : n \in StoreNodes} \cup {Sl \o nope}

RECURSIVE Ancestors(_)
Ancestors(k) == IF Dir(k) = k THEN {k} ELSE {k} \cup Ancestors(Dir(k))

KeySpace ==
    UNION {Ancestors(headerNameEntry(n)) : n \in HeaderNames}
    \cup UNION {Ancestors(fuseNameToKey(n)) : n \in FuseNames}
    \cup StoreKeys

headerNameEntryTab == [n \in HeaderNames |-> headerNameEntry(n)]
fuseNameToKeyTab == [n \in FuseNames |-> fuseNameToKey(n)]
DirTab == [k \in KeySpace |-> Dir(k)]

\* The names nodes carry: the raw header names, the root's "", and the
\* placeholders' filepath.Base(parentKey).
NodeNames == HeaderNames \cup {<<>>} \cup {Base(k) : k \in KeySpace}
BaseTab == [n \in NodeNames \cup KeySpace |-> Base(n)]

-----------------------------------------------------------------------------
(* Stat records, nodes and the heap.                                       *)

Nil == 0

RootIno == 2
RootSize == 4096
RootPerm == 493        \* 0755

\* A *StatT.  isNil marks the nil pointer a placeholder's node carries.
\* mode is os.FileMode: the type bits (kind) and the permission bits (perm).
NilStat ==
    [isNil |-> TRUE, mode |-> [kind |-> "reg", perm |-> 0],
     owner |-> [uid |-> 0, gid |-> 0], mtime |-> 0, ino |-> 0, size |-> 0]

StatT(kind, perm, uid, gid, mtime, ino, size) ==
    [isNil |-> FALSE, mode |-> [kind |-> kind, perm |-> perm],
     owner |-> [uid |-> uid, gid |-> gid], mtime |-> mtime, ino |-> ino, size |-> size]

\* rootStat of FromReaderAt
rootStat(p) == StatT("dir", RootPerm, p.uid, p.gid, 0, RootIno, RootSize)

\* &node{name, stat}: a plain node (isDirNode = FALSE) has no entries field in
\* the code; the empty list stands for it.
node(name, stat) == [isDirNode |-> FALSE, name |-> name, stat |-> stat, entries |-> <<>>]

\* &dirNode{node: &node{name, stat}}
dirNode(name, stat) == [isDirNode |-> TRUE, name |-> name, stat |-> stat, entries |-> <<>>]

\* perms & (1 << k) != 0
PermBit(perms, k) == (perms \div (2 ^ k)) % 2 = 1

-----------------------------------------------------------------------------
(* btreeStore: the items of the B-tree, kept in the order of Less.         *)

\* The byte-wise ordering of the keys, without the depth.
LessLexOnly(k, o) == StrLess(k, o)

\* An ordering by depth alone.
LessDepthOnly(k, o) == CountSep(k) < CountSep(o)

\* stringKey.Less on the keys of two items
Less(k, o) ==
    LET keyCount == CountSep(k)
        oCount == CountSep(o)
    IN IF keyCount < oCount THEN TRUE
       ELSE IF keyCount = oCount THEN StrLess(k, o)
       ELSE FALSE

\* Less over the keys in use and the range scan's until keys.
ScanSpace == KeySpace \cup {k \o <<"/", "/">> : k \in KeySpace}
LessTab == [k \in ScanSpace |-> [o \in ScanSpace |-> Less(k, o)]]

\* The position of the item the B-tree treats as equal to key (neither is
\* Less than the other), 0 when there is none.
Find(d, key) ==
    IF \E i \in 1..Len(d) : ~LessTab[d[i].key][key] /\ ~LessTab[key][d[i].key]
        THEN CHOOSE i \in 1..Len(d) : ~LessTab[d[i].key][key] /\ ~LessTab[key][d[i].key]
        ELSE 0

\* btreeStore.Add: ReplaceOrInsert
Add(d, key, fi) ==
    LET sk == [key |-> key, info |-> fi]
        at == Find(d, key)
        below == {i \in 1..Len(d) : LessTab[d[i].key][key]}
        n == Cardinality(below)
    IN IF at # 0 THEN [d EXCEPT ![at] = sk]
       ELSE SubSeq(d, 1, n) \o <<sk>> \o SubSeq(d, n + 1, Len(d))

\* btreeStore.Get
Get(d, key) ==
    LET at == Find(d, key)
    IN IF at = 0 THEN Nil ELSE d[at].info

\* dirNode.Entries: a copy of the node's entries, in the order they were appended
dirNodeEntries(n) == [i \in 1..Len(n.entries) |-> n.entries[i]]

\* The range scan of btreeStore.Entries: AscendRange(sk, until), keeping the
\* items whose parent path is key.
RECURSIVE ScanRange(_, _, _)
ScanRange(d, key, until) ==
    IF d = <<>> THEN <<>>
    ELSE LET esk == d[1]
             inRange == ~LessTab[esk.key][key] /\ LessTab[esk.key][until]
             rest == ScanRange(Tail(d), key, until)
         IN IF inRange /\ esk.key # key /\ DirTab[esk.key] = key
                THEN <<esk.info>> \o rest
                ELSE rest

\* btreeStore.Entries once the item i of key is fetched.  panics: on a missing
\* key or a non-directory (and on the nil stat of a placeholder).
entriesOf(d, h, key, i) ==
    IF i = Nil THEN [panics |-> TRUE, list |-> <<>>]
    ELSE IF h[i].stat.isNil \/ h[i].stat.mode.kind # "dir"
        THEN [panics |-> TRUE, list |-> <<>>]
    ELSE IF h[i].isDirNode THEN [panics |-> FALSE, list |-> dirNodeEntries(h[i])]
    ELSE [panics |-> FALSE, list |-> ScanRange(d, key, key \o <<"/", "/">>)]

\* btreeStore.Entries
Entries(d, h, key) == entriesOf(d, h, key, Get(d, key))

\* An Entries that hands out the node's own slice.
entriesShareNode(h, i) == IF i # Nil /\ h[i].isDirNode THEN i ELSE Nil

\* The node whose children list shares its memory with the slice Entries
\* returns: none, dirNode.Entries and the range scan both fill a slice they
\* make.
entriesShare(h, i) == Nil

-----------------------------------------------------------------------------
(* FromReaderAt.                                                           *)

\* A merge that overwrites the stored directory node with a new one.
mergeDirFresh(h, addr, name, stat) ==
    [h EXCEPT ![addr] = dirNode(name, stat)]

\* dirInfo.(*dirNode).node = node: the directory node at addr gets the
\* header's name and stat; its entries stay.
mergeDir(h, addr, name, stat) ==
    [h EXCEPT ![addr].name = name, ![addr].stat = stat]

\* delete(missingDirs, key)
resolveMissing(missing, key) == missing \ {key}

\* &dirNode{node: &node{name: filepath.Base(parentKey)}}: no stat
placeholder(parentKey) == dirNode(BaseTab[parentKey], NilStat)

\* An assignment in place of the append.
appendEntryOverwrite(h, parent, nodeInfo) ==
    [h EXCEPT ![parent].entries = <<nodeInfo>>]

\* parent.entries = append(parent.entries, nodeInfo)
appendEntry(h, parent, nodeInfo) ==
    [h EXCEPT ![parent].entries = Append(@, nodeInfo)]

\* fillStat(&stat, h.FileInfo()); stat.Ino = pos
headerStat(hd, pos) ==
    StatT(hd.kind, hd.perm, hd.uid, hd.gid, hd.mtime, pos, Len(hd.data))

\* The node built for header hd (lines 95-105): a directory header for a key
\* the store holds merges into the stored node, whose type assertion to
\* *dirNode panics on a plain node; otherwise a new node is allocated.
headerNode(h, missing, dirInfo, hd, key, stat) ==
    IF hd.kind = "dir" /\ dirInfo # Nil THEN
        IF ~h[dirInfo].isDirNode
            THEN [panics |-> TRUE, heap |-> h, missingDirs |-> missing, nodeInfo |-> Nil]
            ELSE [panics |-> FALSE, heap |-> mergeDir(h, dirInfo, hd.name, stat),
                  missingDirs |-> resolveMissing(missing, key), nodeInfo |-> dirInfo]
    ELSE IF hd.kind = "dir" THEN
        [panics |-> FALSE, heap |-> Append(h, dirNode(hd.name, stat)),
         missingDirs |-> missing, nodeInfo |-> Len(h) + 1]
    ELSE
        [panics |-> FALSE, heap |-> Append(h, node(hd.name, stat)),
         missingDirs |-> missing, nodeInfo |-> Len(h) + 1]

\* A linkParent that does not record the placeholder's path in missingDirs.
linkParentUntracked(h, missing, parentKey, parentInfo, nodeInfo) ==
    IF parentInfo # Nil THEN
        IF ~h[parentInfo].isDirNode
            THEN [panics |-> TRUE, heap |-> h, missingDirs |-> missing, parent |-> Nil]
            ELSE [panics |-> FALSE, heap |-> appendEntry(h, parentInfo, nodeInfo),
                  missingDirs |-> missing, parent |-> parentInfo]
    ELSE
        [panics |-> FALSE,
         heap |-> appendEntry(Append(h, placeholder(parentKey)), Len(h) + 1, nodeInfo),
         missingDirs |-> missing, parent |-> Len(h) + 1]

\* A linkParent whose new placeholder does not receive the node.
linkParentEmptyPlaceholder(h, missing, parentKey, parentInfo, nodeInfo) ==
    IF parentInfo # Nil THEN
        IF ~h[parentInfo].isDirNode
            THEN [panics |-> TRUE, heap |-> h, missingDirs |-> missing, parent |-> Nil]
            ELSE [panics |-> FALSE, heap |-> appendEntry(h, parentInfo, nodeInfo),
                  missingDirs |-> missing, parent |-> parentInfo]
    ELSE
        [panics |-> FALSE, heap |-> Append(h, placeholder(parentKey)),
         missingDirs |-> missing \cup {parentKey}, parent |-> Len(h) + 1]

\* The parent the node is appended to (lines 111-119): the stored one, whose
\* type assertion to *dirNode panics on a plain node, or a new placeholder.
linkParent(h, missing, parentKey, parentInfo, nodeInfo) ==
    IF parentInfo # Nil THEN
        IF ~h[parentInfo].isDirNode
            THEN [panics |-> TRUE, heap |-> h, missingDirs |-> missing, parent |-> Nil]
            ELSE [panics |-> FALSE, heap |-> appendEntry(h, parentInfo, nodeInfo),
                  missingDirs |-> missing, parent |-> parentInfo]
    ELSE
        [panics |-> FALSE,
         heap |-> appendEntry(Append(h, placeholder(parentKey)), Len(h) + 1, nodeInfo),
         missingDirs |-> missing \cup {parentKey}, parent |-> Len(h) + 1]

NoErr == [kind |-> "nil", names |-> {}]

\* os.Geteuid(), os.Getegid()
ProcessIds == { [uid |-> 1000, gid |-> 1000] }

BlankReply ==
    [op |-> "none", name |-> <<>>, ctx |-> [uid |-> 0, gid |-> 0], status |-> "none",
     attr |-> [mtime |-> 0, perm |-> 0, size |-> 0, kind |-> "none",
               owner |-> [uid |-> 0, gid |-> 0]],
     entries |-> <<>>,
     file |-> [name |-> <<>>, base |-> 0, limit |-> 0, valid |-> FALSE],
     len |-> 0, off |-> 0, fault |-> FALSE, isEOF |-> FALSE, data |-> <<>>,
     key |-> <<>>, info |-> Nil, infos |-> <<>>, shares |-> Nil]

NoPermIn == [used |-> FALSE, owner |-> [uid |-> 0, gid |-> 0], perm |-> 0,
             ctx |-> [uid |-> 0, gid |-> 0]]

\* The state on entry to FromReaderAt's loop: the root is in the store.
Init ==
    /\ pc = "ingest"
    /\ proc \in ProcessIds
    /\ stream = <<>>
    /\ heap = <<dirNode(<<>>, rootStat(proc))>>
    /\ db = Add(<<>>, <<"/">>, 1)
    /\ missingDirs = {}
    /\ ingested = <<>>
    /\ err = NoErr
    /\ reply = BlankReply
    /\ permIn = NoPermIn
    /\ added = <<[key |-> <<"/">>, info |-> 1]>>

\* tr.Next() returns a header: one iteration of the loop.  Each value is
\* bound once, in the order the code computes it.  A panic leaves what had
\* been written before it.
ProcessHeader ==
    /\ pc = "ingest"
    /\ Len(ingested) < MaxEntries
    /\ \E hd \in Headers :
       \E pos \in {Len(stream) + BlockSize}, key \in {headerNameEntryTab[hd.name]} :
       \E dirInfo \in {Get(db, key)} :
       \E n \in {headerNode(heap, missingDirs, dirInfo, hd, key, headerStat(hd, pos))} :
       \E d1 \in {IF n.panics THEN db ELSE Add(db, key, n.nodeInfo)} :
       \E parentKey \in {DirTab[key]} :
       \E parentInfo \in {Get(d1, parentKey)} :
       \E l \in {IF n.panics THEN [panics |-> TRUE, heap |-> n.heap,
                                   missingDirs |-> n.missingDirs, parent |-> Nil]
                 ELSE linkParent(n.heap, n.missingDirs, parentKey, parentInfo, n.nodeInfo)} :
           /\ stream' = stream \o EntryBytes(Len(ingested) + 1, hd)
           /\ heap' = l.heap
           /\ missingDirs' = l.missingDirs
           /\ db' = IF l.panics THEN d1 ELSE Add(d1, parentKey, l.parent)
           /\ ingested' = Append(ingested, [key |-> key, info |-> n.nodeInfo,
                                            hdr |-> hd, pos |-> pos])
           /\ added' = added
                        \o (IF n.panics THEN <<>> ELSE <<[key |-> key, info |-> n.nodeInfo]>>)
                        \o (IF l.panics THEN <<>> ELSE <<[key |-> parentKey, info |-> l.parent]>>)
           /\ pc' = IF l.panics THEN "panic" ELSE "ingest"
    /\ UNCHANGED <<proc, err, reply, permIn>>

\* tr.Next() returns io.EOF: the missingDirs check and the return.
Finish ==
    /\ pc = "ingest"
    /\ IF missingDirs # {}
          THEN /\ pc' = "failed"
               /\ err' = [kind |-> "missing directory entries", names |-> missingDirs]
          ELSE /\ pc' = "serving"
               /\ err' = NoErr
    /\ UNCHANGED <<proc, stream, heap, db, missingDirs, ingested, reply, permIn, added>>

\* tr.Next() returns another error.
ReadFault ==
    /\ pc = "ingest"
    /\ pc' = "failed"
    /\ err' = [kind |-> "error reading tar", names |-> {}]
    /\ UNCHANGED <<proc, stream, heap, db, missingDirs, ingested, reply, permIn, added>>


-----------------------------------------------------------------------------
(* The adapter: Open, Read, OpenDir, GetAttr, StatFs.                      *)

\* fuse.Context owners
Callers ==
    { [uid |-> 1000, gid |-> 1000], [uid |-> 1000, gid |-> 2000],
      [uid |-> 2000, gid |-> 2000] }

\* The POSIX order of classes: the owner class decides before the group class.
checkPermissionsPosix(fi, context) ==
    LET owner == fi.owner
        perms == fi.mode.perm
    IN IF PermBit(perms, 2) THEN TRUE
       ELSE IF owner.uid = context.uid THEN PermBit(perms, 8)
       ELSE IF owner.gid = context.gid THEN PermBit(perms, 5)
       ELSE FALSE

checkPermissions(fi, context) ==
    LET owner == fi.owner
        perms == fi.mode.perm
    IN IF PermBit(perms, 2) THEN TRUE
       ELSE IF owner.gid = context.gid THEN PermBit(perms, 5)
       ELSE IF owner.uid = context.uid THEN PermBit(perms, 8)
       ELSE FALSE

\* io.NewSectionReader(s.stream, f.Inode(), f.Size()) inside the file handle
openFile(n) ==
    [name |-> n.name, base |-> n.stat.ino, limit |-> n.stat.ino + n.stat.size,
     valid |-> TRUE]

\* A byte of the caller's buffer that no read has written.
Untouched == Cell(0, "buffer", 0)

\* ReadAt of the archive stream (bytes.Reader.ReadAt): the bytes from off, at
\* most len of them; io.EOF when fewer than len were there.
streamReadAt(st, len, off) ==
    IF off >= Len(st) THEN [n |-> 0, err |-> "EOF", bytes |-> <<>>]
    ELSE [n |-> Min(len, Len(st) - off),
          err |-> IF Len(st) - off < len THEN "EOF" ELSE "nil",
          bytes |-> SubSeq(st, off + 1, off + Min(len, Len(st) - off))]

\* io.SectionReader.ReadAt
sectionReadAt(st, f, len, off) ==
    IF off < 0 \/ off >= f.limit - f.base THEN [n |-> 0, err |-> "EOF", bytes |-> <<>>]
    ELSE IF len > f.limit - (off + f.base)
        THEN [streamReadAt(st, f.limit - (off + f.base), off + f.base)
                 EXCEPT !.err = IF @ = "nil" THEN "EOF" ELSE @]
        ELSE streamReadAt(st, len, off + f.base)

\* The buffer p after ReadAt wrote its first n bytes.
filled(len, bytes) ==
    [i \in 1..len |-> IF i <= Len(bytes) THEN bytes[i] ELSE Untouched]

\* file.Read: the status and the ReadResult (isEOF: eofReadResult, of size 0;
\* otherwise ReadResultData(p), the whole buffer).  fault: the stream's ReadAt
\* fails with an error other than io.EOF.
\* A Read that treats the end of the data as a failure.
readResultEOFError(r, len) ==
    IF r.err = "nil"
       THEN [status |-> "OK", isEOF |-> FALSE, data |-> filled(len, r.bytes)]
    ELSE IF r.err = "EOF" /\ r.n > 0
       THEN [status |-> "OK", isEOF |-> FALSE, data |-> filled(len, r.bytes)]
    ELSE [status |-> "EIO", isEOF |-> FALSE, data |-> <<>>]

readResult(r, len) ==
    IF r.err = "nil"
       THEN [status |-> "OK", isEOF |-> FALSE, data |-> filled(len, r.bytes)]
    ELSE IF r.err = "EOF"
       THEN IF r.n <= 0
               THEN [status |-> "OK", isEOF |-> TRUE, data |-> <<>>]
               ELSE [status |-> "OK", isEOF |-> FALSE, data |-> filled(len, r.bytes)]
    ELSE [status |-> "EIO", isEOF |-> FALSE, data |-> <<>>]

fileRead(st, f, len, off, fault) ==
    readResult(IF fault THEN [n |-> 0, err |-> "EIO", bytes |-> <<>>]
               ELSE sectionReadAt(st, f, len, off), len)

\* The fuse.Attr GetAttr builds
fuseAttr(fi) ==
    [mtime |-> fi.mtime, perm |-> fi.mode.perm, size |-> fi.size,
     kind |-> IF fi.mode.kind = "dir" THEN "dir"
              ELSE IF fi.mode.kind = "symlink" THEN "symlink"
              ELSE "reg",
     owner |-> [uid |-> fi.owner.uid, gid |-> fi.owner.gid]]

\* The fuse.DirEntry list OpenDir builds
dirEntries(h, list) ==
    [i \in 1..Len(list) |-> [name |-> BaseTab[h[list[i]].name], mode |-> h[list[i]].stat.mode]]

\* The call a reply answers.
Call(op, name, context) == [BlankReply EXCEPT !.op = op, !.name = name, !.ctx = context]

\* A method call on a node whose stat is nil dereferences a nil pointer.
Open ==
    /\ pc = "serving"
    /\ reply = BlankReply
    /\ \E name \in FuseNames, context \in Callers :
       \E f \in {Get(db, fuseNameToKeyTab[name])} :
           IF f = Nil
              THEN /\ reply' = [Call("Open", name, context) EXCEPT !.status = "ENOENT"]
                   /\ pc' = pc
           ELSE IF heap[f].stat.isNil
              THEN /\ reply' = Call("Open", name, context)
                   /\ pc' = "panic"
           ELSE /\ reply' = [Call("Open", name, context) EXCEPT
                                 !.status = "OK", !.file = openFile(heap[f])]
                /\ pc' = pc
    /\ UNCHANGED <<proc, stream, heap, db, missingDirs, ingested, err, permIn, added>>

\* The longest content of a header; Read's buffers and offsets go up to it.
MaxData == CHOOSE n \in {Len(hd.data) : hd \in Headers} :
               \A hd \in Headers : Len(hd.data) <= n

\* Read on the handle Open has just returned.
Read ==
    /\ pc = "serving"
    /\ reply.op = "Open"
    /\ reply.file.valid
    /\ \E len \in 0..MaxData, off \in 0..MaxData, fault \in BOOLEAN :
       \E r \in {fileRead(stream, reply.file, len, off, fault)} :
           reply' = [reply EXCEPT !.op = "Read", !.len = len, !.off = off, !.fault = fault,
                                  !.status = r.status, !.isEOF = r.isEOF, !.data = r.data]
    /\ UNCHANGED <<pc, proc, stream, heap, db, missingDirs, ingested, err, permIn, added>>

\* An OpenDir that evaluates the permissions before the node's type.
OpenDirPermFirst ==
    /\ pc = "serving"
    /\ reply = BlankReply
    /\ \E name \in FuseNames, context \in Callers :
       \E dir \in {Get(db, fuseNameToKeyTab[name])} :
           IF dir = Nil
              THEN /\ reply' = [Call("OpenDir", name, context) EXCEPT !.status = "ENOENT"]
                   /\ pc' = pc
           ELSE IF heap[dir].stat.isNil
              THEN /\ reply' = Call("OpenDir", name, context)
                   /\ pc' = "panic"
           ELSE IF ~checkPermissions(heap[dir].stat, context)
              THEN /\ reply' = [Call("OpenDir", name, context) EXCEPT !.status = "EPERM"]
                   /\ pc' = pc
           ELSE IF heap[dir].stat.mode.kind # "dir"
              THEN /\ reply' = [Call("OpenDir", name, context) EXCEPT !.status = "EIO"]
                   /\ pc' = pc
           ELSE \E es \in {Entries(db, heap, fuseNameToKeyTab[name])} :
                   IF es.panics \/ \E i \in 1..Len(es.list) : heap[es.list[i]].stat.isNil
                      THEN /\ reply' = Call("OpenDir", name, context)
                           /\ pc' = "panic"
                      ELSE /\ reply' = [Call("OpenDir", name, context) EXCEPT
                                            !.status = "OK",
                                            !.entries = dirEntries(heap, es.list)]
                           /\ pc' = pc
    /\ UNCHANGED <<proc, stream, heap, db, missingDirs, ingested, err, permIn, added>>

OpenDir ==
    /\ pc = "serving"
    /\ reply = BlankReply
    /\ \E name \in FuseNames, context \in Callers :
       \E dir \in {Get(db, fuseNameToKeyTab[name])} :
           IF dir = Nil
              THEN /\ reply' = [Call("OpenDir", name, context) EXCEPT !.status = "ENOENT"]
                   /\ pc' = pc
           ELSE IF heap[dir].stat.isNil
              THEN /\ reply' = Call("OpenDir", name, context)
                   /\ pc' = "panic"
           ELSE IF heap[dir].stat.mode.kind # "dir"
              THEN /\ reply' = [Call("OpenDir", name, context) EXCEPT !.status = "EIO"]
                   /\ pc' = pc
           ELSE IF ~checkPermissions(heap[dir].stat, context)
              THEN /\ reply' = [Call("OpenDir", name, context) EXCEPT !.status = "EPERM"]
                   /\ pc' = pc
           ELSE \E es \in {Entries(db, heap, fuseNameToKeyTab[name])} :
                   IF es.panics \/ \E i \in 1..Len(es.list) : heap[es.list[i]].stat.isNil
                      THEN /\ reply' = Call("OpenDir", name, context)
                           /\ pc' = "panic"
                      ELSE /\ reply' = [Call("OpenDir", name, context) EXCEPT
                                            !.status = "OK",
                                            !.entries = dirEntries(heap, es.list)]
                           /\ pc' = pc
    /\ UNCHANGED <<proc, stream, heap, db, missingDirs, ingested, err, permIn, added>>

GetAttr ==
    /\ pc = "serving"
    /\ reply = BlankReply
    /\ \E name \in FuseNames, context \in Callers :
       \E fi \in {Get(db, fuseNameToKeyTab[name])} :
           IF fi = Nil
              THEN /\ reply' = [Call("GetAttr", name, context) EXCEPT !.status = "ENOENT"]
                   /\ pc' = pc
           ELSE IF heap[fi].stat.isNil
              THEN /\ reply' = Call("GetAttr", name, context)
                   /\ pc' = "panic"
           ELSE IF ~checkPermissions(heap[fi].stat, context)
              THEN /\ reply' = [Call("GetAttr", name, context) EXCEPT !.status = "EPERM"]
                   /\ pc' = pc
           ELSE /\ reply' = [Call("GetAttr", name, context) EXCEPT
                                 !.status = "OK", !.attr = fuseAttr(heap[fi].stat)]
                /\ pc' = pc
    /\ UNCHANGED <<proc, stream, heap, db, missingDirs, ingested, err, permIn, added>>

\* StatFs returns an empty fuse.StatfsOut.
StatFs ==
    /\ pc = "serving"
    /\ reply = BlankReply
    /\ \E name \in FuseNames :
        reply' = [BlankReply EXCEPT !.op = "StatFs", !.name = name, !.status = "OK"]
    /\ UNCHANGED <<pc, proc, stream, heap, db, missingDirs, ingested, err, permIn, added>>

-----------------------------------------------------------------------------
(* The store on its own: NewBTreeStore, then Add, Get and Entries in any    *)
(* order, on plain nodes (no children list), as in TestAddGet, TestEntries. *)

\* NewBTreeStore: an empty tree.
StoreInit ==
    /\ pc = "store"
    /\ proc \in ProcessIds
    /\ stream = <<>>
    /\ heap = <<>>
    /\ db = <<>>
    /\ missingDirs = {}
    /\ ingested = <<>>
    /\ err = NoErr
    /\ reply = BlankReply
    /\ permIn = NoPermIn
    /\ added = <<>>

\* db.Add(key, &node{name, stat}); the error returned is nil.
StoreAdd ==
    /\ pc = "store"
    /\ Len(added) < MaxAdds
    /\ \E n \in StoreNodes :
        /\ heap' = Append(heap, node(n.name, StatT(n.kind, 493, 0, 0, 0, 0, 0)))
        /\ db' = Add(db, n.key, Len(heap) + 1)
        /\ added' = Append(added, [key |-> n.key, info |-> Len(heap) + 1])
        /\ reply' = [BlankReply EXCEPT !.op = "Add", !.key = n.key, !.status = "nil",
                                       !.info = Len(heap) + 1]
    /\ UNCHANGED <<pc, proc, stream, missingDirs, ingested, err, permIn>>

\* db.Get(key)
StoreGet ==
    /\ pc = "store"
    /\ \E key \in StoreKeys :
        reply' = [BlankReply EXCEPT !.op = "Get", !.key = key, !.status = "returned",
                                   !.info = Get(db, key)]
    /\ UNCHANGED <<pc, proc, stream, heap, db, missingDirs, ingested, err, permIn, added>>

\* db.Entries(key), called by whoever holds the store: on a store of its own,
\* or on the store it handed to FromReaderAt, once that has returned.
StoreEntries ==
    /\ pc = "store" \/ (pc = "serving" /\ reply = BlankReply)
    /\ \E key \in StoreKeys :
       \E es \in {Entries(db, heap, key)} :
           /\ reply' = [BlankReply EXCEPT
                            !.op = "Entries", !.key = key,
                            !.status = IF es.panics THEN "panic" ELSE "returned",
                            !.infos = es.list,
                            !.shares = IF es.panics THEN Nil
                                       ELSE entriesShare(heap, Get(db, key))]
           /\ pc' = IF es.panics THEN "panic" ELSE pc
    /\ UNCHANGED <<proc, stream, heap, db, missingDirs, ingested, err, permIn, added>>

\* The elements of q in the opposite order
Reversed(q) == [i \in 1..Len(q) |-> q[Len(q) + 1 - i]]

\* The caller reorders, in place, the listing Entries returned to it; a node
\* whose children list shares the slice's memory is reordered with it.
ModifyListing ==
    /\ pc = "serving"
    /\ reply.op = "Entries"
    /\ reply.status = "returned"
    /\ Len(reply.infos) > 1
    /\ reply' = [reply EXCEPT !.op = "Modified", !.infos = Reversed(@)]
    /\ heap' = IF reply.shares = Nil THEN heap
               ELSE [heap EXCEPT ![reply.shares].entries = Reversed(@)]
    /\ UNCHANGED <<pc, proc, stream, db, missingDirs, ingested, err, permIn, added>>

StoreNext ==
    \/ StoreAdd
    \/ StoreGet
    \/ StoreEntries

SpecStore == StoreInit /\ [][StoreNext]_vars

\* The caller is done with the reply (rr.Done(), the handle released) and
\* may issue its next request.
Done ==
    /\ pc = "serving"
    /\ reply # BlankReply
    /\ reply' = BlankReply
    /\ UNCHANGED <<pc, proc, stream, heap, db, missingDirs, ingested, err, permIn, added>>

Next ==
    \/ ProcessHeader
    \/ Finish
    \/ ReadFault
    \/ Open
    \/ Read
    \/ OpenDir
    \/ GetAttr
    \/ StatFs
    \/ StoreEntries
    \/ ModifyListing
    \/ Done

Spec == Init /\ [][Next]_vars


-----------------------------------------------------------------------------
(* checkPermissions on its own, over every combination of its inputs.      *)

Ids == {1000, 2000}

PermInputs ==
    [used : {TRUE}, owner : [uid : Ids, gid : Ids], perm : 0..511,
     ctx : [uid : Ids, gid : Ids]]

\* The filesystem of the empty archive, and one evaluation to make.
PermInit ==
    /\ pc = "serving"
    /\ proc \in ProcessIds
    /\ stream = <<>>
    /\ heap = <<dirNode(<<>>, rootStat(proc))>>
    /\ db = Add(<<>>, <<"/">>, 1)
    /\ missingDirs = {}
    /\ ingested = <<>>
    /\ err = NoErr
    /\ reply = BlankReply
    /\ permIn \in PermInputs
    /\ added = <<[key |-> <<"/">>, info |-> 1]>>

PermCheck ==
    /\ permIn.used
    /\ reply = BlankReply
    /\ reply' = [BlankReply EXCEPT
                    !.op = "checkPermissions", !.ctx = permIn.ctx,
                    !.status = IF checkPermissions(
                                     StatT("reg", permIn.perm, permIn.owner.uid,
                                           permIn.owner.gid, 0, 0, 0), permIn.ctx)
                               THEN "allow" ELSE "deny"]
    /\ UNCHANGED <<pc, proc, stream, heap, db, missingDirs, ingested, err, permIn, added>>

SpecPerm == PermInit /\ [][PermCheck]_vars


-----------------------------------------------------------------------------
(* headerNameEntry on its own, over raw names made of ".", "/" and a        *)
(* letter, next to the ingestion and the adapter that use it.              *)

RawNames == UNION {[1..n -> {".", "/", "a"}] : n \in 0..MaxNameLen}

NameInit ==
    /\ pc = "names"
    /\ proc \in ProcessIds
    /\ stream = <<>>
    /\ heap = <<dirNode(<<>>, rootStat(proc))>>
    /\ db = Add(<<>>, <<"/">>, 1)
    /\ missingDirs = {}
    /\ ingested = <<>>
    /\ err = NoErr
    /\ reply \in {[BlankReply EXCEPT !.op = "name", !.name = n] : n \in RawNames}
    /\ permIn = NoPermIn
    /\ added = <<[key |-> <<"/">>, info |-> 1]>>

\* key := headerNameEntry(h.Name)
Canonicalize ==
    /\ pc = "names"
    /\ reply.op = "name"
    /\ reply' = [reply EXCEPT !.op = "headerNameEntry", !.key = headerNameEntry(reply.name)]
    /\ UNCHANGED <<pc, proc, stream, heap, db, missingDirs, ingested, err, permIn, added>>

NamesNext ==
    \/ Canonicalize
    \/ Next

SpecNames == (Init \/ NameInit) /\ [][NamesNext]_vars

-----------------------------------------------------------------------------
(* What the archive read so far says, independently of the index.          *)

Root == <<"/">>
EntryIdx == 1..Len(ingested)

\* every canonical path is defined by exactly one header
UniquePaths == \A m, n \in EntryIdx : m # n => ingested[m].key # ingested[n].key
\* no header names the root
NoRootHeader == \A m \in EntryIdx : ingested[m].key # Root

\* The stream was read to its end: FromReaderAt returned the filesystem or
\* the missing-directories error.
Exhausted == pc = "serving" \/ (pc = "failed" /\ err.kind = "missing directory entries")

\* The keys the store holds
StoredKeys == {db[i].key : i \in 1..Len(db)}

IsDirectory(k) ==
    /\ Get(db, k) # Nil
    /\ ~heap[Get(db, k)].stat.isNil
    /\ heap[Get(db, k)].stat.mode.kind = "dir"

\* The entries of the archive whose canonical parent path is k
ChildrenOf(k) == {m \in EntryIdx : DirTab[ingested[m].key] = k}

SeqRange(q) == {q[i] : i \in 1..Len(q)}

\* C1: after a successful ingestion of an archive that defines every path once
\* and never the root, every directory's Entries are exactly the nodes of the
\* archive entries whose parent path is that directory, each once, and OpenDir
\* lists exactly their base names.
C1_EntriesExact ==
    (pc = "serving" /\ UniquePaths /\ NoRootHeader) =>
        /\ \A k \in StoredKeys : IsDirectory(k) =>
              /\ ~Entries(db, heap, k).panics
              /\ SeqRange(Entries(db, heap, k).list) = {ingested[m].info : m \in ChildrenOf(k)}
              /\ Len(Entries(db, heap, k).list) = Cardinality(ChildrenOf(k))
        /\ (reply.op = "OpenDir" /\ reply.status = "OK") =>
              /\ {reply.entries[i].name : i \in 1..Len(reply.entries)}
                   = {BaseTab[ingested[m].hdr.name] :
                         m \in ChildrenOf(fuseNameToKeyTab[reply.name])}
              /\ Len(reply.entries) = Cardinality(ChildrenOf(fuseNameToKeyTab[reply.name]))

\* A directory with one child whose header came before the directory's own and
\* one whose header came after it, listed.
C1_Witness ==
    /\ pc = "serving" /\ UniquePaths /\ NoRootHeader
    /\ \E m, n, k \in EntryIdx :
          /\ m < n /\ n < k
          /\ ingested[n].hdr.kind = "dir"
          /\ DirTab[ingested[m].key] = ingested[n].key
          /\ DirTab[ingested[k].key] = ingested[n].key
          /\ reply.op = "OpenDir" /\ reply.status = "OK"
          /\ fuseNameToKeyTab[reply.name] = ingested[n].key
          /\ Len(reply.entries) = 2

\* The name a listing shows for node a
ChildName(a) == BaseTab[heap[a].name]

\* C2: every directory's Entries are in ascending order of child name,
\* whatever the order of the headers (stated for the archives that define
\* every path once and never the root).
C2_EntriesSorted ==
    (pc = "serving" /\ UniquePaths /\ NoRootHeader) =>
        \A k \in StoredKeys : IsDirectory(k) =>
            \A i, j \in 1..Len(Entries(db, heap, k).list) :
                i < j => ~StrLess(ChildName(Entries(db, heap, k).list[j]),
                                  ChildName(Entries(db, heap, k).list[i]))

\* The paths referenced as the parent of an entry and defined by no directory
\* header of the stream; the root is there from the start.
Outstanding ==
    ({DirTab[ingested[m].key] : m \in EntryIdx}
        \ {ingested[m].key : m \in {n \in EntryIdx : ingested[n].hdr.kind = "dir"}})
    \ {Root}

\* C3: when the stream is exhausted, ingestion fails with the missing
\* directory entries error exactly when some referenced parent path was never
\* defined by a directory header, and the error names exactly those paths.
C3_MissingIffOutstanding ==
    Exhausted =>
        /\ (err.kind = "missing directory entries") <=> (Outstanding # {})
        /\ (err.kind = "missing directory entries") => err.names = Outstanding
        /\ pc = "serving" => err = NoErr

\* Two directories never defined, a third one defined after its child.
C3_Witness ==
    /\ pc = "failed"
    /\ err.kind = "missing directory entries"
    /\ Cardinality(err.names) = 2
    /\ \E m, n \in EntryIdx :
          m < n /\ ingested[n].hdr.kind = "dir" /\ DirTab[ingested[m].key] = ingested[n].key


KeyFoo == fuseNameToKeyTab[foo]
KeyQuux == fuseNameToKeyTab[foo \o Sl \o quux]
KeyHello == fuseNameToKeyTab[foo \o Sl \o quux \o Sl \o hello]

\* The archive's first entry is foo/quux/hello
HelloFirst == Len(ingested) >= 1 /\ ingested[1].key = KeyHello

\* a directory header for key k is in the stream
HasDirHeader(k) == \E m \in EntryIdx : ingested[m].key = k /\ ingested[m].hdr.kind = "dir"

\* the listing of directory k shows a child called name
ListingHas(k, name) ==
    /\ IsDirectory(k)
    /\ ~Entries(db, heap, k).panics
    /\ \E i \in 1..Len(Entries(db, heap, k).list) :
          ChildName(Entries(db, heap, k).list[i]) = name

LastEntry == ingested'[Len(ingested')]

\* This step reads a directory header whose path the store holds as a
\* placeholder.
MergeStep ==
    /\ pc = "ingest" /\ Len(ingested') = Len(ingested) + 1
    /\ LastEntry.hdr.kind = "dir"
    /\ Get(db, LastEntry.key) # Nil
    /\ heap[Get(db, LastEntry.key)].isDirNode
    /\ heap[Get(db, LastEntry.key)].stat.isNil

\* This step reads a header whose parent path the store holds as a directory
\* node.
AppendStep ==
    /\ pc = "ingest" /\ pc' = "ingest" /\ Len(ingested') = Len(ingested) + 1
    /\ Get(db, DirTab[LastEntry.key]) # Nil
    /\ heap[Get(db, DirTab[LastEntry.key])].isDirNode
    /\ Get(db, LastEntry.key) # Get(db, DirTab[LastEntry.key])

\* C5: a directory header for a path held by a placeholder leaves the same
\* node at the path with the same children list, gives it the header's name
\* and stat, and removes the path from missingDirs; and a child read for a
\* stored directory is appended to that directory's list.
C5_MergeKeepsChildren ==
    [][ /\ MergeStep =>
            /\ Get(db', LastEntry.key) = Get(db, LastEntry.key)
            /\ heap'[Get(db, LastEntry.key)].entries = heap[Get(db, LastEntry.key)].entries
            /\ heap[Get(db, LastEntry.key)].entries # <<>>
            /\ heap'[Get(db, LastEntry.key)].stat = headerStat(LastEntry.hdr, LastEntry.pos)
            /\ heap'[Get(db, LastEntry.key)].name = LastEntry.hdr.name
            /\ LastEntry.key \in missingDirs
            /\ LastEntry.key \notin missingDirs'
        /\ AppendStep =>
            /\ Get(db', DirTab[LastEntry.key]) = Get(db, DirTab[LastEntry.key])
            /\ heap'[Get(db, DirTab[LastEntry.key])].entries
                 = Append(heap[Get(db, DirTab[LastEntry.key])].entries, LastEntry.info)
      ]_vars

\* A placeholder that got a child, then its directory header, then another
\* child: the node at the path lists both, in that order.
C5_Witness ==
    \E m, n, k \in EntryIdx :
        /\ m < n /\ n < k
        /\ ingested[n].hdr.kind = "dir"
        /\ \A j \in 1..(n - 1) : ingested[j].key # ingested[n].key
        /\ DirTab[ingested[m].key] = ingested[n].key
        /\ DirTab[ingested[k].key] = ingested[n].key
        /\ Get(db, ingested[n].key) = ingested[n].info
        /\ heap[ingested[n].info].entries = <<ingested[m].info, ingested[k].info>>
        /\ heap[ingested[n].info].stat = headerStat(ingested[n].hdr, ingested[n].pos)
        /\ ingested[n].key \notin missingDirs


\* The last entry of the archive that defines key k, 0 when there is none
LastDef(k) ==
    IF \E m \in EntryIdx : ingested[m].key = k
        THEN CHOOSE m \in EntryIdx :
                 /\ ingested[m].key = k
                 /\ \A n \in EntryIdx : ingested[n].key = k => n <= m
        ELSE 0

\* The reply answers a call on the path of a file entry of the archive, the
\* one the store holds.
OnFileEntry ==
    /\ LastDef(fuseNameToKeyTab[reply.name]) # 0
    /\ ingested[LastDef(fuseNameToKeyTab[reply.name])].hdr.kind = "reg"
    /\ Get(db, fuseNameToKeyTab[reply.name])
         = ingested[LastDef(fuseNameToKeyTab[reply.name])].info

\* The content of that entry
Content == ingested[LastDef(fuseNameToKeyTab[reply.name])].hdr.data

\* The bytes a ReadResult holds
ResultBytes == [i \in 1..Len(reply.data) |-> reply.data[i].byte]

\* C6: on the handle Open returns for a file entry of N content bytes, a Read
\* of N bytes at offset 0 returns OK and the N content bytes, and a Read at
\* offset N returns OK and the empty end-of-data result; N = 0 included.
C6_ReadRoundTrip ==
    (reply.op = "Read" /\ ~reply.fault /\ OnFileEntry) =>
        /\ (reply.len = Len(Content) /\ reply.off = 0) =>
              /\ reply.status = "OK"
              /\ ResultBytes = Content
              /\ \A i \in 1..Len(reply.data) : reply.data[i] # Untouched
        /\ reply.off = Len(Content) =>
              /\ reply.status = "OK"
              /\ reply.isEOF
              /\ reply.data = <<>>

\* The three content bytes of foo/quux/hello read back whole.
C6_Witness ==
    /\ reply.op = "Read" /\ ~reply.fault /\ OnFileEntry
    /\ Len(Content) = 3 /\ reply.len = 3 /\ reply.off = 0
    /\ reply.status = "OK" /\ ResultBytes = Content

\* The index, in the archive, of the entry whose node the store holds at the
\* path the reply is about; 0 for a node no header defined (the synthetic
\* root).
OpenedEntry ==
    IF \E m \in EntryIdx : ingested[m].info = Get(db, fuseNameToKeyTab[reply.name])
        THEN LastDef(fuseNameToKeyTab[reply.name])
        ELSE 0

\* C7: whatever path of the index a handle was opened on, every byte a Read
\* on it returns is a content byte of that path's own entry.
C7_OwnBytesOnly ==
    (reply.op = "Read" /\ reply.status = "OK") =>
        \A i \in 1..Len(reply.data) :
            reply.data[i] # Untouched =>
                /\ reply.data[i].kind = "data"
                /\ reply.data[i].owner = OpenedEntry


\* The reply answers a call on a file entry owned by uid 1000 / gid 1000
\* whose permission bits grant read to the owner only.
OnOwnerOnlyFile ==
    /\ OnFileEntry
    /\ ingested[LastDef(fuseNameToKeyTab[reply.name])].hdr.uid = 1000
    /\ ingested[LastDef(fuseNameToKeyTab[reply.name])].hdr.gid = 1000
    /\ ingested[LastDef(fuseNameToKeyTab[reply.name])].hdr.perm = 256

\* C8: GetAttr on a file of 1000/1000 readable by its owner only is allowed
\* to every caller of uid 1000, whatever the caller's gid, 1000 included.
C8_OwnerAllowed ==
    (reply.op = "GetAttr" /\ OnOwnerOnlyFile /\ reply.ctx.uid = 1000) =>
        reply.status = "OK"

\* C9: on a file of 1000/1000 readable by its owner only, the caller
\* 2000/2000 gets permission-denied from GetAttr and obtains none of the
\* file's bytes through Open followed by Read.
C9_StrangerDenied ==
    (OnOwnerOnlyFile /\ reply.ctx = [uid |-> 2000, gid |-> 2000]) =>
        /\ reply.op = "GetAttr" => reply.status = "EPERM"
        /\ reply.op = "Open" => reply.status # "OK"
        /\ reply.op = "Read" =>
              \A i \in 1..Len(reply.data) : reply.data[i].kind # "data"

\* The read bit of each class, by arithmetic on the octal digits
OtherRead == permIn.perm % 8 >= 4
GroupRead == (permIn.perm \div 8) % 8 >= 4
OwnerRead == (permIn.perm \div 64) % 8 >= 4
SameGid == reply.ctx.gid = permIn.owner.gid
SameUid == reply.ctx.uid = permIn.owner.uid

\* C10: the evaluation allows exactly when the other read bit is set, or else
\* the gids are equal and the group read bit is set, or else the gids differ,
\* the uids are equal and the owner read bit is set; a gid match with the
\* group bit clear denies even when the uid matches and the owner bit is set.
C10_FirstClassDecides ==
    reply.op = "checkPermissions" =>
        /\ (reply.status = "allow") <=>
              \/ OtherRead
              \/ ~OtherRead /\ SameGid /\ GroupRead
              \/ ~OtherRead /\ ~SameGid /\ SameUid /\ OwnerRead
        /\ (reply.status = "deny") <=> ~(reply.status = "allow")
        /\ (~OtherRead /\ SameGid /\ ~GroupRead) => reply.status = "deny"

\* The owner, with the owner bit set, denied by the clear group bit.
C10_Witness ==
    /\ reply.op = "checkPermissions"
    /\ ~OtherRead /\ SameGid /\ ~GroupRead /\ SameUid /\ OwnerRead
    /\ reply.status = "deny"


-----------------------------------------------------------------------------

\* C11: after ingestion, Get of every path a file entry was added under
\* returns a node whose Name() is the final path component of that path
\* (stated for the file entries; the root has no final component).
C11_NameIsLastComponent ==
    pc = "serving" =>
        \A m \in EntryIdx :
            (ingested[m].hdr.kind = "reg" /\ ingested[m].key # Root) =>
                /\ Get(db, ingested[m].key) # Nil
                /\ heap[Get(db, ingested[m].key)].name = BaseTab[ingested[m].key]

\* The root's node holds the stat of the last header that names the root.
RootHasHeaderStat ==
    LastDef(Root) # 0 =>
        heap[Get(db, Root)].stat
            = headerStat(ingested[LastDef(Root)].hdr, ingested[LastDef(Root)].pos)

\* The entries attached to the root so far are in the root's listing.
RootKeepsChildren ==
    \A m \in EntryIdx :
        (DirTab[ingested[m].key] = Root /\ ingested[m].info # Nil) =>
            /\ Get(db, Root) # Nil
            /\ ingested[m].info \in SeqRange(heap[Get(db, Root)].entries)

\* C12: from before the first entry until ingestion ends, whatever the
\* entries, the root path is in the index as a directory; once a header names
\* the root, the root's stat is that header's, and the children attached to
\* the root earlier are still listed under it.
C12_RootStaysDirectory ==
    /\ IsDirectory(Root)
    /\ RootHasHeaderStat
    /\ RootKeepsChildren


\* The node of the most recent Add under key k, Nil when k was never added
LastAdded(k) ==
    IF \E i \in 1..Len(added) : added[i].key = k
        THEN added[CHOOSE i \in 1..Len(added) :
                       /\ added[i].key = k
                       /\ \A j \in 1..Len(added) : added[j].key = k => j <= i].info
        ELSE Nil

AddedKeys == {added[i].key : i \in 1..Len(added)}

\* C13: after any sequence of Adds, Get(k) returns the node of the most
\* recent Add(k, .) and nil for a key never added, without a panic; distinct
\* keys, of the same depth or not, hold distinct items; Add returns no error.
C13_GetReturnsLastAdd ==
    /\ \A k \in StoreKeys : Get(db, k) = LastAdded(k)
    /\ StoredKeys = AddedKeys
    /\ Len(db) = Cardinality(AddedKeys)
    /\ reply.op = "Get" =>
          /\ reply.info = LastAdded(reply.key)
          /\ pc # "panic"
    /\ reply.op = "Add" => reply.status = "nil"

\* Two keys of the same depth in the store, one of them added twice, and Get
\* returning the node of its second Add.
C13_Witness ==
    /\ reply.op = "Get"
    /\ \E i, j, k \in 1..Len(added) :
          /\ i < j
          /\ added[i].key = reply.key /\ added[j].key = reply.key
          /\ added[k].key # reply.key
          /\ CountSep(added[k].key) = CountSep(reply.key)
          /\ reply.info = added[j].info
          /\ reply.info # added[i].info


\* The items of the store whose parent path is key, the item of key excluded
StoredChildren(key) ==
    {i \in 1..Len(db) : db[i].key # key /\ Dir(db[i].key) = key}

\* C14: on a directory node without a children list, Entries(key) returns
\* exactly the stored nodes whose parent path is key, each once, in ascending
\* order of name; every such node is in the range from key to key + "//" of
\* the (depth, byte-wise) ordering, the root's included; a directory without
\* children yields the empty list.
C14_RangeScanChildren ==
    /\ \A n \in StoreNodes :
          (Get(db, n.key) # Nil /\ n.kind = "dir") => ~Entries(db, heap, n.key).panics
    /\ (reply.op = "Entries" /\ reply.status = "returned") =>
          /\ SeqRange(reply.infos) = {db[i].info : i \in StoredChildren(reply.key)}
          /\ Len(reply.infos) = Cardinality(StoredChildren(reply.key))
          /\ \A i, j \in 1..Len(reply.infos) :
                i < j => StrLess(heap[reply.infos[i]].name, heap[reply.infos[j]].name)
          /\ \A i \in StoredChildren(reply.key) :
                /\ ~Less(db[i].key, reply.key)
                /\ Less(db[i].key, reply.key \o <<"/", "/">>)
          /\ Get(db, reply.key) \notin SeqRange(reply.infos)

\* Two children listed in name order, added in the other order, with an item
\* of a sibling subtree inside the scanned range.
C14_Witness ==
    /\ reply.op = "Entries" /\ reply.status = "returned"
    /\ Len(reply.infos) = 2
    /\ reply.infos[2] < reply.infos[1]
    /\ \E i \in 1..Len(db) :
          /\ i \notin StoredChildren(reply.key)
          /\ db[i].key # reply.key
          /\ ~Less(db[i].key, reply.key)
          /\ Less(db[i].key, reply.key \o <<"/", "/">>)

\* The listing of a directory through the range scan, as Entries computes it
\* for a node without a children list
scanListing(k) == ScanRange(db, k, k \o <<"/", "/">>)

\* C15: on the index ingestion built, every directory's children list and the
\* range scan over the same index give the same sequence of nodes (stated for
\* the archives that define every path once and never the root).
C15_ListAndScanAgree ==
    (pc = "serving" /\ UniquePaths /\ NoRootHeader) =>
        \A k \in StoredKeys :
            (IsDirectory(k) /\ heap[Get(db, k)].isDirNode) =>
                dirNodeEntries(heap[Get(db, k)]) = scanListing(k)


\* The index as it was handed to FromReaderAt, with the root it adds first
PristineIndex ==
    /\ StoredKeys = {Root}
    /\ heap[Get(db, Root)].entries = <<>>

\* C16: when ingestion fails, on a read fault or on unresolved parents, the
\* store the caller supplied keeps none of the entries and placeholders of the
\* failed archive.
C16_FailureLeavesNothing ==
    (pc = "failed" /\ NoRootHeader) => PristineIndex


Target == Get(db, fuseNameToKeyTab[reply.name])

\* the permission evaluation denies the reply's caller on that node
Denied == ~checkPermissions(heap[Target].stat, reply.ctx)

\* C18: OpenDir answers not-found for a path absent from the index, the I/O
\* error for a path that is not a directory whatever the caller, permission
\* denied for a directory the evaluation denies, and OK with the listing
\* otherwise; GetAttr answers not-found on a miss, permission denied on a
\* denial, OK otherwise; an error comes with no listing and no attributes.
C18_StatusOrder ==
    /\ reply.op = "OpenDir" =>
          /\ Target = Nil => reply.status = "ENOENT"
          /\ (Target # Nil /\ heap[Target].stat.mode.kind # "dir") => reply.status = "EIO"
          /\ (Target # Nil /\ heap[Target].stat.mode.kind = "dir" /\ Denied) =>
                reply.status = "EPERM"
          /\ (Target # Nil /\ heap[Target].stat.mode.kind = "dir" /\ ~Denied) =>
                reply.status = "OK"
          /\ reply.status # "OK" => reply.entries = <<>>
    /\ reply.op = "GetAttr" =>
          /\ Target = Nil => reply.status = "ENOENT"
          /\ (Target # Nil /\ Denied) => reply.status = "EPERM"
          /\ (Target # Nil /\ ~Denied) => reply.status = "OK"
          /\ reply.status # "OK" => reply.attr = BlankReply.attr

\* OpenDir on a file, by a caller the evaluation denies on it: the I/O error.
C18_Witness ==
    /\ reply.op = "OpenDir"
    /\ Target # Nil
    /\ heap[Target].stat.mode.kind # "dir"
    /\ Denied
    /\ reply.status = "EIO"


\* The paths referenced as the parent of an entry read so far and defined by
\* no entry read so far; the root is defined from the start.
ReferencedUndefined ==
    ({DirTab[ingested[m].key] : m \in EntryIdx} \ {ingested[m].key : m \in EntryIdx})
    \ {Root}

\* The paths at which the index holds a placeholder: a directory node without
\* a stat
Placeholders ==
    {k \in StoredKeys : heap[Get(db, k)].isDirNode /\ heap[Get(db, k)].stat.isNil}

\* C19: after every entry processed, missingDirs is the set of paths
\* referenced as a parent and not yet defined by an entry, which is the set
\* of paths held by a placeholder; after a successful ingestion every node of
\* the index has a stat.
C19_PendingIsUndefined ==
    /\ pc = "ingest" =>
          /\ missingDirs = ReferencedUndefined
          /\ missingDirs = Placeholders
    /\ pc = "serving" => \A k \in StoredKeys : ~heap[Get(db, k)].stat.isNil


\* The path a client uses for key k: k without its leading separator
ClientPath(k) == Tail(k)

\* C20: headerNameEntry gives an absolute, clean key; a name, the name with
\* "./" in front and the name with "/" behind have the same key; "", "." and
\* "./" have the root's key; the key of a key is that key; fuseNameToKey of a
\* key's client path ("" or "." for the root) is that key, so that after
\* ingestion Get through the client path of every entry returns the node the
\* index holds for that entry.
C20_OneKeyPerName ==
    /\ reply.op = "headerNameEntry" =>
          /\ reply.key[1] = "/"
          /\ Clean(reply.key) = reply.key
          /\ headerNameEntry(<<".", "/">> \o reply.name) = reply.key
          /\ headerNameEntry(reply.name \o <<"/">>) = reply.key
          /\ headerNameEntry(<<".", "/">> \o reply.name \o <<"/">>) = reply.key
          /\ reply.name \in {<<>>, <<".">>, <<".", "/">>} => reply.key = <<"/">>
          /\ headerNameEntry(reply.key) = reply.key
          /\ fuseNameToKey(ClientPath(reply.key)) = reply.key
          /\ reply.key = <<"/">> => fuseNameToKey(<<".">>) = reply.key
    /\ pc = "serving" =>
          /\ \A m \in EntryIdx :
                /\ fuseNameToKeyTab[ClientPath(ingested[m].key)] = ingested[m].key
                /\ Get(db, fuseNameToKeyTab[ClientPath(ingested[m].key)]) # Nil
                /\ m = LastDef(ingested[m].key) =>
                      Get(db, fuseNameToKeyTab[ClientPath(ingested[m].key)]) = ingested[m].info
          /\ Get(db, fuseNameToKey(<<".">>)) = Get(db, Root)

\* The name ./a/ canonicalized to /a.
C20_Witness ==
    /\ reply.op = "headerNameEntry"
    /\ reply.name = <<".", "/", "a", "/">>
    /\ reply.key = <<"/", "a">>


-----------------------------------------------------------------------------

\* C21: whatever the entries, FromReaderAt ends by returning the filesystem
\* or an error; no header makes it crash, a child of a file, a directory
\* header on a file's path and a non-directory root entry included.
C21_IngestionNeverCrashes ==
    ~(pc = "panic" /\ reply.op = "none")

\* The children list of the directory stored at k
Listed(k) == heap[Get(db, k)].entries

\* C22: after a successful ingestion, paths defined more than once included,
\* no directory lists two children of the same name, and every listed child
\* is the node Get returns for that child's path (stated for the archives
\* without a root entry).
C22_NoDuplicateChildren ==
    (pc = "serving" /\ NoRootHeader) =>
        \A k \in StoredKeys : IsDirectory(k) =>
            /\ \A i, j \in 1..Len(Listed(k)) :
                  i < j => ChildName(Listed(k)[i]) # ChildName(Listed(k)[j])
            /\ \A i \in 1..Len(Listed(k)) :
                  \E m \in EntryIdx :
                      /\ ingested[m].info = Listed(k)[i]
                      /\ Get(db, ingested[m].key) = Listed(k)[i]

\* C23: after a successful ingestion, a root entry included, no directory is
\* in its own children list, and the root lists only the nodes of entries
\* whose path is not the root and has the root as its parent.
C23_NoSelfListing ==
    pc = "serving" =>
        /\ \A k \in StoredKeys : IsDirectory(k) => Get(db, k) \notin SeqRange(Listed(k))
        /\ \A i \in 1..Len(Listed(Root)) :
              \E m \in EntryIdx :
                  /\ ingested[m].info = Listed(Root)[i]
                  /\ ingested[m].key # Root
                  /\ DirTab[ingested[m].key] = Root

\* C24: on a file entry of S bytes, a Read that starts inside the entry and
\* runs past its end returns OK and a result of exactly the S - off bytes
\* from off to the end, none of them a buffer byte the read did not write.
C24_ShortReadIsTrimmed ==
    (/\ reply.op = "Read" /\ ~reply.fault /\ OnFileEntry
     /\ reply.off < Len(Content)
     /\ reply.off + reply.len > Len(Content)) =>
        /\ reply.status = "OK"
        /\ Len(reply.data) = Len(Content) - reply.off
        /\ ResultBytes = SubSeq(Content, reply.off + 1, Len(Content))
        /\ \A i \in 1..Len(reply.data) : reply.data[i] # Untouched


====
